---- MODULE Spec2Model ----
(***************************************************************************)
(* Share-The-Vows backend: the photo store (photos table + storage_stats  *)
(* aggregate), the content directory, the ingest pipeline, the quota      *)
(* guard and the upload, list, serve-file and delete routes, as run by    *)
(* several server processes (PM2 cluster mode, ecosystem.config.js) over  *)
(* one SQLite file and one upload directory.                               *)
(*                                                                         *)
(* Every SQL statement and every file-system call is one atomic step: the *)
(* code opens no transaction, so statements of different processes        *)
(* interleave, and a process can be killed between any two of them.       *)
(***************************************************************************)
EXTENDS Integers, Sequences, FiniteSets, TLC

\* ---------------------------------------------------------------- bounds

\* Files the ingest pipeline may write in one run of the model.
MaxWritten == 2
\* Largest byte size of an uploaded or a stored file.
MaxFileBytes == 2
\* config.maxStorageGB (MAX_STORAGE_GB, 50 by default), in the model's GB.
maxStorageGB == 1
\* Largest pixel width or height of an uploaded image.
MaxSide == 3
\* Rows of a store the read, delete and insert operations are tried on.
MaxRows == 3
\* Tokens of the decoded text of a Basic credential.
MaxCredLen == 3
\* Connections open to the HTTP server of one process at one time.
MaxConns == 2
\* Calls of gracefulShutdown in one process.
MaxTriggers == 2
\* Characters of a guestName or caption a client sends.
MaxTextLen == 3

\* --------------------------------------- program constants, scaled down

\* PM2 cluster instances (4 in ecosystem.config.js): server processes, each
\* handling one request at a time.
NumWorkers == 2
\* Bytes in one GB (1024 * 1024 * 1024 in the code): a power of two.
BytesPerGB == 2
\* multer's limits.files (10 in the code).
MaxFilesPerRequest == 2
\* getPhotos: the limit used when the query gives none (100 in the code).
DefaultLimit == 1
\* getPhotos: the cap of the limit (1000 in the code).
MaxLimit == 2
\* processImage: limitInputPixels is maxImageWidth * maxImageHeight * 4.
PixelFactor == 4
\* isLength({ max: 100 }) of guestName.
MaxGuestName == 1
\* isLength({ max: 500 }) of caption.
MaxCaption == 2
\* config.maxImageWidth and config.maxImageHeight as the upload and delete
\* runs configure them (4096 by default in the code).
DefaultMaxSide == 2

Workers == 1..NumWorkers
Ids == 1..MaxWritten
Sizes == 1..MaxFileBytes

\* ----------------------------------------------------------------- state

VARIABLES
    photos,     \* rows of table photos
    stats,      \* the row of storage_stats: [total_files, total_size_bytes]
    seq,        \* AUTOINCREMENT: the largest id ever assigned
    files,      \* names of the files in the content directory
    uuids,      \* uuidv4 tokens generated so far (token n names file n)
    config,     \* the loaded configuration: [maxImageWidth, maxImageHeight]
    pc,         \* per process: where its current request stands
    req,        \* per process: the request being handled
    loc,        \* per process: the handler's local variables
    resp,       \* per process: the status code of the last response
    msg,        \* per process: the error of the last response ("" if none)
    out,        \* per process: what the last read request was answered with
    written,    \* history: names of the files toFile has written
    everRows,   \* history: every row ever inserted
    decs,       \* history: per id, the byte amounts deletePhoto subtracted
    delTrue,    \* history: per id, the number of deletePhoto calls returning true
    peak,       \* history: the most stored bytes ever in flight at one time
    sd          \* one process: its HTTP server, database handle and exit

vars == <<photos, stats, seq, files, uuids, config, pc, req, loc, resp, msg,
          out, written, everRows, decs, delTrue, peak, sd>>

Undefined == 0

\* A row of photos (no row: id 0).  guest_name and caption are texts,
\* sequences of characters, <<>> for NULL; original_name and ip_address are
\* carried through unread and are left out.
NoRow == [id |-> 0, filename |-> 0, mime_type |-> "", file_size |-> 0,
          width |-> 0, height |-> 0, uploaded_at |-> 0,
          guest_name |-> <<>>, caption |-> <<>>]

\* ProcessedImage.
NoImage == [filename |-> 0, ext |-> "", mimeType |-> "", fileSize |-> 0,
            width |-> 0, height |-> 0]

\* An Authorization header: its scheme (the text before the first space, ""
\* when the header is missing) and, for Basic, the text its Base64 part
\* decodes to, as a sequence of tokens: words and the colon.
NoHeader == [scheme |-> "", credentials |-> <<>>]

\* What parseInt makes of a query or path parameter: an integer, or NaN
\* (the parameter is missing or does not start with a number).
NaN == [nan |-> TRUE, n |-> 0]
Num(k) == [nan |-> FALSE, n |-> k]

\* An Express request: kind, req.files, req.file, req.params.id (id once
\* parsed and found a number, param as parseInt reads it),
\* req.headers.authorization, req.query.limit, req.query.offset,
\* req.body.guestName and req.body.caption (<<>> when absent or empty).
NoReq == [kind |-> "none", files |-> <<>>, file |-> Undefined, id |-> 0,
          param |-> NaN, authorization |-> NoHeader,
          limit |-> NaN, offset |-> NaN,
          guestName |-> <<>>, caption |-> <<>>]

InitLoc == [idx |-> 0, processed |-> NoImage, rowid |-> 0,
            photo |-> NoRow, dbPhoto |-> NoRow]

NoOut == [kind |-> "none"]

\* A running process: its HTTP server listens, conns connections are open,
\* signals lists the calls of gracefulShutdown, timers counts the force
\* timers set, and the database handle is open.
Running == [server |-> "listening", conns |-> 0, signals |-> <<>>,
            timers |-> 0, db |-> "open", exited |-> FALSE, code |-> 0]

\* The value of peak in runs that do not record it.
Untracked == -1

RECURSIVE SumSizes(_)
SumSizes(S) ==
    IF S = {} THEN 0
    ELSE LET r == CHOOSE x \in S : TRUE
         IN  r.file_size + SumSizes(S \ {r})

RECURSIVE SumSeq(_)
SumSeq(s) == IF s = <<>> THEN 0 ELSE Head(s) + SumSeq(Tail(s))

Max(a, b) == IF a >= b THEN a ELSE b
Min(a, b) == IF a <= b THEN a ELSE b

\* SELECT ... FROM photos WHERE id = ?
getPhotoById(id) ==
    IF \E r \in photos : r.id = id
    THEN CHOOSE r \in photos : r.id = id
    ELSE NoRow

\* UPDATE storage_stats SET total_files = total_files + ?,
\*                          total_size_bytes = total_size_bytes + ?
updateStorageStatsSwapped(st, sizeBytes, fileCount) ==
    [total_files      |-> st.total_files + sizeBytes,
     total_size_bytes |-> st.total_size_bytes + fileCount]

updateStorageStats(st, sizeBytes, fileCount) ==
    [total_files      |-> st.total_files + fileCount,
     total_size_bytes |-> st.total_size_bytes + sizeBytes]

\* multer's upload.any(): every file of the multipart body lands in req.files;
\* req.file is set only by upload.single() and stays undefined.
UploadAny(fs) == [NoReq EXCEPT !.kind = "upload", !.files = fs]

\* req.file?.size || 0
ReqFileSize(r) == IF r.file = Undefined THEN 0 ELSE r.file

\* StorageMiddleware.checkStorageLimit: 507 or 0 (next()).  totalSizeGB is
\* total_size_bytes / BytesPerGB, a division by a power of two, so the two
\* comparisons are the exact comparisons of the byte counts.
checkStorageLimitStrict(st, r) ==
    IF st.total_size_bytes > maxStorageGB * BytesPerGB THEN 507
    ELSE IF st.total_size_bytes + ReqFileSize(r) > maxStorageGB * BytesPerGB THEN 507
    ELSE 0

checkStorageLimitOff(st, r) == 0

checkStorageLimit(st, r) ==
    IF st.total_size_bytes >= maxStorageGB * BytesPerGB THEN 507
    ELSE IF st.total_size_bytes + ReqFileSize(r) > maxStorageGB * BytesPerGB THEN 507
    ELSE 0

\* ------------------------------------------------------- ingest pipeline

\* An uploaded file (Express.Multer.File): size is file.size, mimetype the
\* type the client declared, ext the extension of originalname ("" if none).
\* The rest describes file.buffer: sniffed is what fileTypeFromBuffer finds
\* in its magic bytes ("" if nothing), width, height and orientation what
\* sharp's metadata() reads from its header (0: not there), and outSize the
\* byte size of what the encoder makes of it.
Image(size, outSize, sniffed, mimetype, ext, width, height, orientation) ==
    [size |-> size, outSize |-> outSize, sniffed |-> sniffed,
     mimetype |-> mimetype, ext |-> ext, width |-> width, height |-> height,
     orientation |-> orientation]

\* validateImageType: [valid, mimeType] from the sniffed type alone.
validateImageTypeDeclared(f) ==
    IF f.mimetype \in {"image/jpeg", "image/png", "image/webp"}
    THEN [valid |-> TRUE, mimeType |-> f.mimetype]
    ELSE [valid |-> FALSE, mimeType |-> ""]

validateImageType(f) ==
    IF f.sniffed = "" THEN [valid |-> FALSE, mimeType |-> ""]
    ELSE IF f.sniffed \in {"image/jpeg", "image/png", "image/webp"}
    THEN [valid |-> TRUE, mimeType |-> f.sniffed]
    ELSE [valid |-> FALSE, mimeType |-> ""]

\* path.extname(sanitize(originalName)).slice(1) || 'jpg'
OutputExt(f) == IF f.ext = "" THEN "jpg" ELSE f.ext

\* a / b rounded to the nearest integer.
Round(a, b) == (2 * a + b) \div (2 * b)

\* sharp's rotate() without an angle: EXIF orientations 5 to 8 turn the
\* image by a quarter and swap its sides.
Oriented(f) ==
    IF f.orientation \in 5..8
    THEN [width |-> f.height, height |-> f.width]
    ELSE [width |-> f.width, height |-> f.height]

\* sharp's resize(W, H, {fit: 'inside', withoutEnlargement: true}) of a
\* d.width x d.height image: the largest image of the same aspect ratio
\* within W x H, never enlarged, no side below one pixel.
FitInside(d, W, H) ==
    IF d.width <= W /\ d.height <= H THEN d
    ELSE IF W * d.height <= H * d.width
    THEN [width |-> W, height |-> Max(1, Round(d.height * W, d.width))]
    ELSE [width |-> Max(1, Round(d.width * H, d.height)), height |-> H]

\* processImage from auto-rotate to the encoder: the pixel size of the output.
\* The test that decides on the resize reads metadata.width and
\* metadata.height, the sides as stored, before the rotation.
OutputSize(f, cfg) ==
    IF f.width > cfg.maxImageWidth \/ f.height > cfg.maxImageHeight
    THEN FitInside(Oriented(f), cfg.maxImageWidth, cfg.maxImageHeight)
    ELSE Oriented(f)

\* processImage up to the dimension read: the Error it throws, "" if none.
\* sharp refuses an input of more than limitInputPixels pixels.
PipelineError(f, cfg) ==
    IF ~validateImageType(f).valid THEN "InvalidFileType"
    ELSE IF f.width * f.height >
            cfg.maxImageWidth * cfg.maxImageHeight * PixelFactor
    THEN "PixelLimit"
    ELSE IF f.width = 0 \/ f.height = 0 THEN "UnreadableDimensions"
    ELSE ""

\* The ProcessedImage processImage returns for file f under the name n.
Processed(f, cfg, n) ==
    [filename |-> n, ext |-> OutputExt(f),
     mimeType |-> validateImageType(f).mimeType, fileSize |-> f.outSize,
     width |-> OutputSize(f, cfg).width, height |-> OutputSize(f, cfg).height]

errorHandlerAll500(e) == 500

\* The error handler's status for an Error the pipeline or the store throws.
errorHandler(e) ==
    IF e \in {"InvalidFileType", "UnreadableDimensions"} THEN 400 ELSE 500

\* ------------------------------------------------------------------ init

DefaultConfig ==
    [maxImageWidth |-> DefaultMaxSide, maxImageHeight |-> DefaultMaxSide]

\* Every process idle.
Idle ==
    /\ pc = [w \in Workers |-> "idle"]
    /\ req = [w \in Workers |-> NoReq]
    /\ loc = [w \in Workers |-> InitLoc]
    /\ resp = [w \in Workers |-> 0]
    /\ msg = [w \in Workers |-> ""]
    /\ out = [w \in Workers |-> NoOut]
    /\ sd = Running

Init ==
    /\ photos = {}
    /\ stats = [total_files |-> 0, total_size_bytes |-> 0]
    /\ seq = 0
    /\ files = {}
    /\ uuids = 0
    /\ config = DefaultConfig
    /\ Idle
    /\ written = {}
    /\ everRows = {}
    /\ decs = [i \in Ids |-> <<>>]
    /\ delTrue = [i \in Ids |-> 0]
    /\ peak = Untracked

\* The response is sent; the request and the handler's locals die.
Reply(w, code, m) ==
    /\ pc' = [pc EXCEPT ![w] = "idle"]
    /\ resp' = [resp EXCEPT ![w] = code]
    /\ msg' = [msg EXCEPT ![w] = m]
    /\ loc' = [loc EXCEPT ![w] = InitLoc]
    /\ req' = [req EXCEPT ![w] = NoReq]

Finish(w, code) == Reply(w, code, "")

Goto(w, label) ==
    /\ pc' = [pc EXCEPT ![w] = label]
    /\ UNCHANGED <<resp, msg, req>>

\* ---------------------------------------------------------------- upload

\* The byte sizes (file.size) of the uploaded files and the byte sizes of
\* what the encoder makes of them: the smallest and the largest.
UploadSizes == {1, MaxFileBytes}

\* The files the concurrent runs upload: well-formed JPEG images.
UploadFiles ==
    {Image(s, o, "image/jpeg", "image/jpeg", "jpg", 1, 1, 1) :
        s \in UploadSizes, o \in UploadSizes}

\* Their multipart bodies: one to MaxFilesPerRequest files.
UploadBodies ==
    UNION {[1..n -> UploadFiles] : n \in 1..MaxFilesPerRequest}

\* The total of file.size over the files of request r.
UploadedBytes(r) == SumSeq([i \in 1..Len(r.files) |-> r.files[i].size])

\* Files of the request in flight at w that processImage has not yet named.
Unprocessed(w) ==
    IF pc[w] = "guard" THEN Len(req[w].files)
    ELSE IF pc[w] = "process" THEN Len(req[w].files) - loc[w].idx + 1
    ELSE IF pc[w] \in {"ins_row", "ins_stats", "ins_ret"}
    THEN Len(req[w].files) - loc[w].idx
    ELSE 0

RECURSIVE SumUnprocessed(_)
SumUnprocessed(W) ==
    IF W = {} THEN 0
    ELSE LET w == CHOOSE x \in W : TRUE
         IN  Unprocessed(w) + SumUnprocessed(W \ {w})

\* The stored bytes of the files fs[from..Len(fs)] the pipeline accepts.
StoredBytes(fs, from) ==
    SumSeq([i \in 1..(Len(fs) - from + 1) |->
               IF PipelineError(fs[from + i - 1], config) = ""
               THEN fs[from + i - 1].outSize ELSE 0])

\* The stored bytes of the admitted request at w that are not yet added to
\* the aggregate.
Pending(w) ==
    IF pc[w] \in {"process", "ins_row", "ins_stats"}
    THEN StoredBytes(req[w].files, loc[w].idx)
    ELSE IF pc[w] = "ins_ret" THEN StoredBytes(req[w].files, loc[w].idx + 1)
    ELSE 0

RECURSIVE SumPending(_)
SumPending(W) ==
    IF W = {} THEN 0
    ELSE LET w == CHOOSE x \in W : TRUE
         IN  Pending(w) + SumPending(W \ {w})

\* POST /api/upload arrives and multer has parsed the body into memory.
\* (The model admits a request only while its files fit in MaxWritten.)
StartUpload(w) ==
    /\ pc[w] = "idle"
    /\ \E fs \in UploadBodies :
        /\ uuids + SumUnprocessed(Workers) + Len(fs) <= MaxWritten
        /\ req' = [req EXCEPT ![w] = UploadAny(fs)]
    /\ pc' = [pc EXCEPT ![w] = "guard"]
    /\ resp' = [resp EXCEPT ![w] = 0]
    /\ msg' = [msg EXCEPT ![w] = ""]
    /\ UNCHANGED <<photos, stats, seq, files, uuids, config, loc, out,
                   written, everRows, decs, delTrue, peak, sd>>

\* The quota guard, then uploadPhoto up to the start of its loop.
CheckStorageLimit(w) ==
    /\ pc[w] = "guard"
    /\ IF checkStorageLimit(stats, req[w]) = 507
       THEN /\ Reply(w, 507, "StorageExceeded")
            /\ UNCHANGED peak
       ELSE /\ Goto(w, "process")
            /\ loc' = [loc EXCEPT ![w].idx = 1]
            /\ peak' = IF peak = Untracked THEN peak
                       ELSE Max(peak, SumPending(Workers)
                                      + StoredBytes(req[w].files, 1))
    /\ UNCHANGED <<photos, stats, seq, files, uuids, config, out,
                   written, everRows, decs, delTrue, sd>>

\* ImageService.processImage on the current file: the type and the
\* dimensions are validated, then a fresh uuid names the output, toFile
\* writes it and its metadata is returned.  An Error thrown on the way ends
\* the request in the error handler.
ProcessImageUnwritten(w) ==
    /\ pc[w] = "process"
    /\ LET f == req[w].files[loc[w].idx]
           e == PipelineError(f, config)
       IN  IF e # ""
           THEN /\ Reply(w, errorHandler(e), e)
                /\ UNCHANGED uuids
           ELSE /\ loc' = [loc EXCEPT ![w].processed =
                              Processed(f, config, uuids + 1)]
                /\ uuids' = uuids + 1
                /\ Goto(w, "ins_row")
    /\ UNCHANGED <<photos, stats, seq, files, written, config, out,
                   everRows, decs, delTrue, peak, sd>>

ProcessImageSameName(w) ==
    /\ pc[w] = "process"
    /\ LET f == req[w].files[loc[w].idx]
           e == PipelineError(f, config)
           n == f.outSize
       IN  IF e # ""
           THEN /\ Reply(w, errorHandler(e), e)
                /\ UNCHANGED <<uuids, files, written>>
           ELSE /\ loc' = [loc EXCEPT ![w].processed = Processed(f, config, n)]
                /\ uuids' = uuids + 1
                /\ files' = files \cup {n}
                /\ written' = written \cup {n}
                /\ Goto(w, "ins_row")
    /\ UNCHANGED <<photos, stats, seq, config, out, everRows, decs, delTrue, peak, sd>>

ProcessImagePartial(w) ==
    /\ pc[w] = "process"
    /\ LET f == req[w].files[loc[w].idx]
           e == PipelineError(f, config)
       IN  IF e = "UnreadableDimensions"
           THEN /\ Reply(w, errorHandler(e), e)
                /\ uuids' = uuids + 1
                /\ files' = files \cup {uuids + 1}
                /\ written' = written \cup {uuids + 1}
           ELSE IF e # ""
           THEN /\ Reply(w, errorHandler(e), e)
                /\ UNCHANGED <<uuids, files, written>>
           ELSE /\ loc' = [loc EXCEPT ![w].processed =
                              Processed(f, config, uuids + 1)]
                /\ uuids' = uuids + 1
                /\ files' = files \cup {uuids + 1}
                /\ written' = written \cup {uuids + 1}
                /\ Goto(w, "ins_row")
    /\ UNCHANGED <<photos, stats, seq, config, out, everRows, decs, delTrue, peak, sd>>

ProcessImage(w) ==
    /\ pc[w] = "process"
    /\ LET f == req[w].files[loc[w].idx]
           e == PipelineError(f, config)
       IN  IF e # ""
           THEN /\ Reply(w, errorHandler(e), e)
                /\ UNCHANGED <<uuids, files, written>>
           ELSE /\ loc' = [loc EXCEPT ![w].processed =
                              Processed(f, config, uuids + 1)]
                /\ uuids' = uuids + 1
                /\ files' = files \cup {uuids + 1}
                /\ written' = written \cup {uuids + 1}
                /\ Goto(w, "ins_row")
    /\ UNCHANGED <<photos, stats, seq, config, out, everRows, decs, delTrue, peak, sd>>

\* CURRENT_TIMESTAMP, in seconds: the upload and delete runs of the model
\* happen within one second of the store's clock.
CurrentTimestamp == 1

\* The constraint INSERT INTO photos fails on, "" if none: the CHECKs of the
\* row are tested before the UNIQUE index of filename.
InsertErrorNoUnique(p) ==
    IF p.fileSize <= 0 \/ p.width <= 0 \/ p.height <= 0
    THEN "SQLITE_CONSTRAINT_CHECK"
    ELSE ""

InsertErrorNoCheck(p) ==
    IF \E r \in photos : r.filename = p.filename
    THEN "SQLITE_CONSTRAINT_UNIQUE"
    ELSE ""

InsertError(p) ==
    IF p.fileSize <= 0 \/ p.width <= 0 \/ p.height <= 0
    THEN "SQLITE_CONSTRAINT_CHECK"
    ELSE IF \E r \in photos : r.filename = p.filename
    THEN "SQLITE_CONSTRAINT_UNIQUE"
    ELSE ""

\* insertPhoto, first statement: INSERT INTO photos.  A constraint violation
\* throws a SqliteError, which ends the request in the error handler.
InsertRow(w) ==
    /\ pc[w] = "ins_row"
    /\ LET p == loc[w].processed
           e == InsertError(p)
           row == [id |-> seq + 1, filename |-> p.filename,
                   mime_type |-> p.mimeType, file_size |-> p.fileSize,
                   width |-> p.width, height |-> p.height,
                   uploaded_at |-> CurrentTimestamp,
                   guest_name |-> req[w].guestName,
                   caption |-> req[w].caption]
       IN  IF e # ""
           THEN /\ Reply(w, errorHandler(e), e)
                /\ UNCHANGED <<photos, seq, everRows>>
           ELSE /\ photos' = photos \cup {row}
                /\ everRows' = everRows \cup {row}
                /\ seq' = seq + 1
                /\ loc' = [loc EXCEPT ![w].rowid = seq + 1]
                /\ Goto(w, "ins_stats")
    /\ UNCHANGED <<stats, files, uuids, config, out, written, decs, delTrue, peak, sd>>

\* insertPhoto, second statement: updateStorageStats(photo.fileSize, 1).
InsertStats(w) ==
    /\ pc[w] = "ins_stats"
    /\ stats' = updateStorageStats(stats, loc[w].processed.fileSize, 1)
    /\ Goto(w, "ins_ret")
    /\ UNCHANGED <<photos, seq, files, uuids, config, loc, out,
                   written, everRows, decs, delTrue, peak, sd>>

\* insertPhoto, third statement: getPhotoById(lastInsertRowid)!, then the
\* loop body's uploadedPhotos.push and the next file, or the 201 response.
\* Reading photo.id of an undefined row throws a TypeError.
InsertReturn(w) ==
    /\ pc[w] = "ins_ret"
    /\ IF getPhotoById(loc[w].rowid) = NoRow
       THEN Reply(w, errorHandler("TypeError"), "TypeError")
       ELSE IF loc[w].idx < Len(req[w].files)
       THEN /\ loc' = [loc EXCEPT ![w] =
                          [InitLoc EXCEPT !.idx = loc[w].idx + 1]]
            /\ Goto(w, "process")
       ELSE Finish(w, 201)
    /\ UNCHANGED <<photos, stats, seq, files, uuids, config, out,
                   written, everRows, decs, delTrue, peak, sd>>

\* ------------------------------------------------------------ admin auth

\* config.adminPassword, the configured admin secret.
adminPassword == <<"secret">>

\* credentials.split(':'): the fields between the colons, at least one.
RECURSIVE Split(_)
Split(s) ==
    IF s = <<>> THEN << <<>> >>
    ELSE IF Head(s) = ":" THEN << <<>> >> \o Split(Tail(s))
    ELSE LET r == Split(Tail(s))
         IN  << <<Head(s)>> \o Head(r) >> \o Tail(r)

\* adminAuth: the AppError it throws, or status 0 for next().
\* const [username, password] = credentials.split(':') takes the second
\* field; without a colon password is undefined, which differs from the
\* configured secret.
adminAuthAnyBasic(h) ==
    IF h.scheme # "Basic"
    THEN [status |-> 401, message |-> "Authentication required"]
    ELSE [status |-> 0, message |-> ""]

adminAuth(h) ==
    IF h.scheme # "Basic"
    THEN [status |-> 401, message |-> "Authentication required"]
    ELSE LET parts == Split(h.credentials)
         IN  IF Len(parts) < 2 \/ parts[2] # adminPassword
             THEN [status |-> 401, message |-> "Invalid credentials"]
             ELSE [status |-> 0, message |-> ""]

\* The header the admin panel sends: btoa('admin:' + password).
AdminHeader == [scheme |-> "Basic", credentials |-> <<"admin", ":", "secret">>]

\* ---------------------------------------------------------------- delete

\* DELETE /api/photos/:id arrives with the admin credential and passes
\* adminAuth.
StartDelete(w) ==
    /\ pc[w] = "idle"
    /\ adminAuth(AdminHeader).status = 0
    /\ \E id \in Ids :
        req' = [req EXCEPT ![w] = [NoReq EXCEPT !.kind = "delete", !.id = id,
                                          !.authorization = AdminHeader]]
    /\ pc' = [pc EXCEPT ![w] = "del_lookup"]
    /\ resp' = [resp EXCEPT ![w] = 0]
    /\ msg' = [msg EXCEPT ![w] = ""]
    /\ UNCHANGED <<photos, stats, seq, files, uuids, config, loc, out,
                   written, everRows, decs, delTrue, peak, sd>>

\* PhotoRoutes.deletePhoto: const photo = getPhotoById(id); 404 if none.
DeleteLookupUnchecked(w) ==
    /\ pc[w] = "del_lookup"
    /\ LET photo == getPhotoById(req[w].id)
       IN  IF photo = NoRow
           THEN Finish(w, 500)
           ELSE /\ loc' = [loc EXCEPT ![w].photo = photo]
                /\ Goto(w, "del_file")
    /\ UNCHANGED <<photos, stats, seq, files, uuids, config, out,
                   written, everRows, decs, delTrue, peak, sd>>

DeleteLookup(w) ==
    /\ pc[w] = "del_lookup"
    /\ LET photo == getPhotoById(req[w].id)
       IN  IF photo = NoRow
           THEN Reply(w, 404, "Photo not found")
           ELSE /\ loc' = [loc EXCEPT ![w].photo = photo]
                /\ Goto(w, "del_file")
    /\ UNCHANGED <<photos, stats, seq, files, uuids, config, out,
                   written, everRows, decs, delTrue, peak, sd>>

\* ImageService.deleteImage: existsSync, then unlinkSync; an unlink error is
\* caught and logged.  The route ignores the boolean it returns.
DeleteImage(w) ==
    /\ pc[w] = "del_file"
    /\ \/ /\ loc[w].photo.filename \in files
          /\ files' = files \ {loc[w].photo.filename}
       \/ /\ loc[w].photo.filename \in files
          /\ UNCHANGED files
       \/ /\ loc[w].photo.filename \notin files
          /\ UNCHANGED files
    /\ Goto(w, "db_get")
    /\ UNCHANGED <<photos, stats, seq, uuids, config, loc, out,
                   written, everRows, decs, delTrue, peak, sd>>

\* DatabaseService.deletePhoto: const photo = getPhotoById(id);
\* if (!photo) return false.  The route ignores the boolean and answers 200.
DbDeleteGet(w) ==
    /\ pc[w] = "db_get"
    /\ LET photo == getPhotoById(req[w].id)
       IN  IF photo = NoRow
           THEN Finish(w, 200)
           ELSE /\ loc' = [loc EXCEPT ![w].dbPhoto = photo]
                /\ Goto(w, "db_delete")
    /\ UNCHANGED <<photos, stats, seq, files, uuids, config, out,
                   written, everRows, decs, delTrue, peak, sd>>

\* DELETE FROM photos WHERE id = ?; info.changes > 0 decides the decrement.
DbDeleteRowUnchecked(w) ==
    /\ pc[w] = "db_delete"
    /\ photos' = {r \in photos : r.id # req[w].id}
    /\ Goto(w, "db_stats")
    /\ UNCHANGED <<stats, seq, files, uuids, config, loc, out,
                   written, everRows, decs, delTrue, peak, sd>>

DbDeleteRowAll(w) ==
    /\ pc[w] = "db_delete"
    /\ LET changes == Cardinality({r \in photos : r.id = req[w].id})
       IN  /\ photos' = {}
           /\ IF changes > 0
              THEN /\ Goto(w, "db_stats")
                   /\ UNCHANGED loc
              ELSE Finish(w, 200)
    /\ UNCHANGED <<stats, seq, files, uuids, config, out,
                   written, everRows, decs, delTrue, peak, sd>>

DbDeleteRow(w) ==
    /\ pc[w] = "db_delete"
    /\ LET changes == Cardinality({r \in photos : r.id = req[w].id})
       IN  /\ photos' = {r \in photos : r.id # req[w].id}
           /\ IF changes > 0
              THEN /\ Goto(w, "db_stats")
                   /\ UNCHANGED loc
              ELSE Finish(w, 200)
    /\ UNCHANGED <<stats, seq, files, uuids, config, out,
                   written, everRows, decs, delTrue, peak, sd>>

\* updateStorageStats(-photo.fileSize, -1); return true; the route answers 200.
DbDeleteStats(w) ==
    /\ pc[w] = "db_stats"
    /\ stats' = updateStorageStats(stats, -loc[w].dbPhoto.file_size, -1)
    /\ decs' = [decs EXCEPT ![req[w].id] =
                    Append(@, loc[w].dbPhoto.file_size)]
    /\ delTrue' = [delTrue EXCEPT ![req[w].id] = @ + 1]
    /\ Finish(w, 200)
    /\ UNCHANGED <<photos, seq, files, uuids, config, out, written, everRows, peak, sd>>

\* ----------------------------------------------------------------- crash

\* The process is killed (and restarted by PM2) while handling a request:
\* no response is sent, nothing is rolled back.
Crash(w) ==
    /\ pc[w] # "idle"
    /\ Finish(w, -1)
    /\ UNCHANGED <<photos, stats, seq, files, uuids, config, out,
                   written, everRows, decs, delTrue, peak, sd>>

Step(w) ==
    \/ StartUpload(w)
    \/ CheckStorageLimit(w)
    \/ ProcessImage(w)
    \/ InsertRow(w)
    \/ InsertStats(w)
    \/ InsertReturn(w)
    \/ StartDelete(w)
    \/ DeleteLookup(w)
    \/ DeleteImage(w)
    \/ DbDeleteGet(w)
    \/ DbDeleteRow(w)
    \/ DbDeleteStats(w)

\* The server processes interleaving, every request running to its response.
Next == \E w \in Workers : Step(w)

Spec == Init /\ [][Next]_vars

\* The same, with processes that may be killed in mid-request.
NextCrash == \E w \in Workers : Step(w) \/ Crash(w)

SpecCrash == Init /\ [][NextCrash]_vars

TypeOK ==
    /\ seq \in 0..MaxWritten
    /\ uuids \in 0..MaxWritten
    /\ files \subseteq Ids
    /\ \A r \in photos : r.id \in 1..seq /\ r.filename \in 1..uuids
    /\ photos \subseteq everRows

\* ------------------------------------------------------------------ list

\* parseInt(x) || d
OrDefault(x, d) == IF x.nan \/ x.n = 0 THEN d ELSE x.n

\* getPhotos: const limit = Math.min(parseInt(req.query.limit) || 100, 1000)
LimitOfClamped(x) ==
    Max(0, Min(OrDefault(x, DefaultLimit), MaxLimit))

LimitOf(x) == Min(OrDefault(x, DefaultLimit), MaxLimit)

\* getPhotos: const offset = parseInt(req.query.offset) || 0
OffsetOf(x) == OrDefault(x, 0)

\* ORDER BY uploaded_at DESC: the orders of the rows S the statement may
\* return them in (SQL leaves the order of rows of one second open).
Orders(S) ==
    {o \in [1..Cardinality(S) -> S] :
        /\ \A i, j \in DOMAIN o : i # j => o[i] # o[j]
        /\ \A i, j \in DOMAIN o : i < j => o[i].uploaded_at >= o[j].uploaded_at}

\* LIMIT ? OFFSET ? of SQLite on the rows in order o: a negative LIMIT is no
\* limit, a negative OFFSET is no offset.
LimitOffset(o, limit, offset) ==
    LET first == Max(offset, 0) + 1
        last  == IF limit < 0 THEN Len(o)
                 ELSE Min(Len(o), first + limit - 1)
    IN  [i \in 1..Max(0, last - first + 1) |-> o[first + i - 1]]

\* DatabaseService.getAllPhotos(limit, offset): the results it may return.
getAllPhotos(limit, offset) ==
    {LimitOffset(o, limit, offset) : o \in Orders(photos)}

\* SELECT COUNT(*) FROM photos
getPhotoCount == Cardinality(photos)

\* The values of a query or path parameter.
Params == {NaN} \cup {Num(k) : k \in -1..(MaxRows + 1)}

\* GET /api/photos?limit=L&offset=O, PhotoRoutes.getPhotos.
GetPhotos(w) ==
    /\ pc[w] = "idle"
    /\ \E L \in Params, O \in Params :
        \E page \in getAllPhotos(LimitOf(L), OffsetOf(O)) :
            /\ req' = [req EXCEPT ![w] =
                          [NoReq EXCEPT !.kind = "list", !.limit = L, !.offset = O]]
            /\ out' = [out EXCEPT ![w] =
                          [kind |-> "list",
                           photos |-> [i \in DOMAIN page |-> page[i].id],
                           total |-> getPhotoCount,
                           limit |-> LimitOf(L),
                           offset |-> OffsetOf(O),
                           hasMore |-> OffsetOf(O) + Len(page) < getPhotoCount]]
    /\ resp' = [resp EXCEPT ![w] = 200]
    /\ msg' = [msg EXCEPT ![w] = ""]
    /\ UNCHANGED <<photos, stats, seq, files, uuids, config, pc, loc,
                   written, everRows, decs, delTrue, peak, sd>>

\* ------------------------------------------------------------ serve file

\* PhotoRoutes.servePhotoFile: [status, message, file] for path parameter p.
servePhotoFileOneError(p) ==
    IF p.nan
    THEN [status |-> 400, message |-> "Invalid photo ID", file |-> 0]
    ELSE IF getPhotoById(p.n) = NoRow \/ getPhotoById(p.n).filename \notin files
    THEN [status |-> 404, message |-> "Photo not found", file |-> 0]
    ELSE [status |-> 200, message |-> "", file |-> getPhotoById(p.n).filename]

servePhotoFile(p) ==
    IF p.nan
    THEN [status |-> 400, message |-> "Invalid photo ID", file |-> 0]
    ELSE IF getPhotoById(p.n) = NoRow
    THEN [status |-> 404, message |-> "Photo not found", file |-> 0]
    ELSE IF getPhotoById(p.n).filename \notin files
    THEN [status |-> 404, message |-> "Photo file not found", file |-> 0]
    ELSE [status |-> 200, message |-> "", file |-> getPhotoById(p.n).filename]

\* GET /api/photos/:id/file
ServePhotoFile(w) ==
    /\ pc[w] = "idle"
    /\ \E p \in Params :
        /\ req' = [req EXCEPT ![w] =
                      [NoReq EXCEPT !.kind = "file", !.param = p]]
        /\ resp' = [resp EXCEPT ![w] = servePhotoFile(p).status]
        /\ msg' = [msg EXCEPT ![w] = servePhotoFile(p).message]
        /\ out' = [out EXCEPT ![w] =
                      IF servePhotoFile(p).status = 200
                      THEN [kind |-> "file", file |-> servePhotoFile(p).file]
                      ELSE NoOut]
    /\ UNCHANGED <<photos, stats, seq, files, uuids, config, pc, loc,
                   written, everRows, decs, delTrue, peak, sd>>

\* ---------------------------------------------------------------- stores

\* Seconds of the store's clock.
Times == 1..2

\* The row the n-th upload of a store left, at second t.
StoredRow(n, t) ==
    [id |-> n, filename |-> n, mime_type |-> "image/jpeg", file_size |-> 1,
     width |-> 1, height |-> 1, uploaded_at |-> t,
     guest_name |-> <<>>, caption |-> <<>>]

\* Stores after n uploads, each row in the second t[i] of its insert, with
\* any of their files gone from the content directory.
Stores ==
    UNION {{[photos |-> {StoredRow(i, t[i]) : i \in 1..n}, files |-> F] :
                t \in {u \in [1..n -> Times] :
                          \A i, j \in 1..n : i < j => u[i] <= u[j]},
                F \in SUBSET (1..n)} :
           n \in 0..MaxRows}

\* The server stands idle on store s.
InitOn(s) ==
    /\ photos = s.photos
    /\ files = s.files
    /\ stats = [total_files |-> Cardinality(s.photos),
                total_size_bytes |-> SumSizes(s.photos)]
    /\ seq = Cardinality(s.photos)
    /\ uuids = Cardinality(s.photos)
    /\ config = DefaultConfig
    /\ Idle
    /\ written = {r.filename : r \in s.photos}
    /\ everRows = s.photos
    /\ decs = [i \in 1..(MaxRows + 1) |-> <<>>]
    /\ delTrue = [i \in 1..(MaxRows + 1) |-> 0]
    /\ peak = Untracked

\* ------------------------------------------------------------- the reads

\* The stores whose files are all in the content directory.
InitList == \E s \in Stores : s.files = {r.filename : r \in s.photos} /\ InitOn(s)

NextList == GetPhotos(1)

\* One process answering list requests on any store.
SpecList == InitList /\ [][NextList]_vars

InitServe == \E s \in Stores : InitOn(s)

NextServe == ServePhotoFile(1)

\* One process answering serve-file requests on any store, with any of the
\* files gone.
SpecServe == InitServe /\ [][NextServe]_vars

\* ------------------------------------------------ delete authorisation

CredTokens == {"admin", "secret", ":"}

Credentials == UNION {[1..n -> CredTokens] : n \in 0..MaxCredLen}

AuthHeaders ==
    {NoHeader} \cup
    {[scheme |-> s, credentials |-> c] :
        s \in {"Basic", "Bearer"}, c \in Credentials}

\* DELETE /api/photos/:id arrives, with any Authorization header or none.
ArriveDelete(w) ==
    /\ pc[w] = "idle"
    /\ \E id \in 1..(MaxRows + 1), h \in AuthHeaders :
        req' = [req EXCEPT ![w] = [NoReq EXCEPT !.kind = "delete", !.id = id,
                                          !.authorization = h]]
    /\ pc' = [pc EXCEPT ![w] = "auth"]
    /\ resp' = [resp EXCEPT ![w] = 0]
    /\ msg' = [msg EXCEPT ![w] = ""]
    /\ UNCHANGED <<photos, stats, seq, files, uuids, config, loc, out,
                   written, everRows, decs, delTrue, peak, sd>>

\* The adminAuth middleware of the route.
AdminAuth(w) ==
    /\ pc[w] = "auth"
    /\ LET a == adminAuth(req[w].authorization)
       IN  IF a.status # 0
           THEN Reply(w, a.status, a.message)
           ELSE /\ Goto(w, "del_lookup")
                /\ UNCHANGED loc
    /\ UNCHANGED <<photos, stats, seq, files, uuids, config, out,
                   written, everRows, decs, delTrue, peak, sd>>

InitAuth == \E s \in Stores : InitOn(s)

NextAuth ==
    \/ ArriveDelete(1)
    \/ AdminAuth(1)
    \/ DeleteLookup(1)
    \/ DeleteImage(1)
    \/ DbDeleteGet(1)
    \/ DbDeleteRow(1)
    \/ DbDeleteStats(1)

\* One process answering DELETE requests of any caller on any store.
SpecAuth == InitAuth /\ [][NextAuth]_vars

\* ---------------------------------------------------- the ingest pipeline

\* What fileTypeFromBuffer may find, the types a client may declare and the
\* extensions a client may give.
SniffedTypes ==
    {"", "image/jpeg", "image/png", "image/webp", "image/heic", "image/heif",
     "image/gif"}

DeclaredTypes == {"image/jpeg", "text/plain"}

Extensions == {"", "png"}

\* EXIF orientations: upright, and turned by a quarter.
Orientations == {1, 6}

\* Every file of one byte in and one byte out.
Images ==
    {Image(1, 1, s, m, e, x, y, o) :
        s \in SniffedTypes, m \in DeclaredTypes, e \in Extensions,
        x \in 0..MaxSide, y \in 0..MaxSide, o \in Orientations}

\* A well-formed image, a text file named and declared as an image, and
\* an image whose header gives no dimensions.
SampleImages ==
    {Image(1, 1, "image/jpeg", "image/jpeg", "", 1, 1, 1),
     Image(1, 1, "", "image/jpeg", "png", 0, 0, 1),
     Image(1, 1, "image/png", "image/jpeg", "png", 0, 1, 1)}

\* One file of any kind, or two of the samples.
IngestBodies ==
    {<<f>> : f \in Images} \cup {<<f, g>> : f \in SampleImages, g \in SampleImages}

\* MAX_IMAGE_WIDTH and MAX_IMAGE_HEIGHT as configured.
Configs ==
    {[maxImageWidth |-> a, maxImageHeight |-> b] :
        a \in 1..(MaxSide - 1), b \in 1..(MaxSide - 1)}

\* An upload has arrived at an empty store, under any configuration.
InitIngest ==
    /\ photos = {}
    /\ stats = [total_files |-> 0, total_size_bytes |-> 0]
    /\ seq = 0
    /\ files = {}
    /\ uuids = 0
    /\ config \in Configs
    /\ pc = [w \in Workers |-> IF w = 1 THEN "guard" ELSE "idle"]
    /\ \E fs \in IngestBodies :
        req = [w \in Workers |-> IF w = 1 THEN UploadAny(fs) ELSE NoReq]
    /\ loc = [w \in Workers |-> InitLoc]
    /\ resp = [w \in Workers |-> 0]
    /\ msg = [w \in Workers |-> ""]
    /\ out = [w \in Workers |-> NoOut]
    /\ sd = Running
    /\ written = {}
    /\ everRows = {}
    /\ decs = [i \in Ids |-> <<>>]
    /\ delTrue = [i \in Ids |-> 0]
    /\ peak = Untracked

NextIngest ==
    \/ CheckStorageLimit(1)
    \/ ProcessImage(1)
    \/ InsertRow(1)
    \/ InsertStats(1)
    \/ InsertReturn(1)

\* One upload request of any content, from the quota guard to its response.
SpecIngest == InitIngest /\ [][NextIngest]_vars

\* ------------------------------------------------------ the store's insert

\* The photos insertPhoto may be called with: any filename, taken or not,
\* and sizes and dimensions negative, zero or positive.
InsertInputs ==
    {[filename |-> n, ext |-> "jpg", mimeType |-> "image/jpeg",
      fileSize |-> s, width |-> x, height |-> y] :
        n \in 1..(MaxRows + 1), s \in -1..1, x \in -1..1, y \in -1..1}

\* DatabaseService.insertPhoto is called.
CallInsertPhoto(w) ==
    /\ pc[w] = "idle"
    /\ seq <= MaxRows
    /\ \E p \in InsertInputs : loc' = [loc EXCEPT ![w].processed = p]
    /\ req' = [req EXCEPT ![w] = [NoReq EXCEPT !.kind = "insert"]]
    /\ pc' = [pc EXCEPT ![w] = "ins_row"]
    /\ resp' = [resp EXCEPT ![w] = 0]
    /\ msg' = [msg EXCEPT ![w] = ""]
    /\ UNCHANGED <<photos, stats, seq, files, uuids, config, out,
                   written, everRows, decs, delTrue, peak, sd>>

InitInsert == \E s \in Stores : InitOn(s)

NextInsert ==
    \/ CallInsertPhoto(1)
    \/ InsertRow(1)
    \/ InsertStats(1)
    \/ InsertReturn(1)

\* One process calling insertPhoto with any photo on any store.
SpecInsert == InitInsert /\ [][NextInsert]_vars

\* -------------------------------------------------------------- the quota

InitQuota ==
    /\ photos = {}
    /\ stats = [total_files |-> 0, total_size_bytes |-> 0]
    /\ seq = 0
    /\ files = {}
    /\ uuids = 0
    /\ config = DefaultConfig
    /\ Idle
    /\ written = {}
    /\ everRows = {}
    /\ decs = [i \in Ids |-> <<>>]
    /\ delTrue = [i \in Ids |-> 0]
    /\ peak = 0

\* The interleaved processes of Spec, peak being recorded.
SpecQuota == InitQuota /\ [][Next]_vars

\* ------------------------------------------------- the fields of an upload

\* The characters of a text: a blank, a letter, and a character that
\* escape() replaces.
Chars == {" ", "a", "<"}

\* The texts a client may send as guestName or caption.
Texts == UNION {[1..n -> Chars] : n \in 0..MaxTextLen}

\* trim(): the text without its leading and trailing blanks.
RECURSIVE TrimLeft(_)
TrimLeft(s) ==
    IF s # <<>> /\ Head(s) = " " THEN TrimLeft(Tail(s)) ELSE s

RECURSIVE TrimRight(_)
TrimRight(s) ==
    IF s # <<>> /\ s[Len(s)] = " "
    THEN TrimRight(SubSeq(s, 1, Len(s) - 1)) ELSE s

Trim(s) == TrimRight(TrimLeft(s))

\* escape(): < becomes &lt; (and likewise >, &, ', " and /, each replaced by
\* an entity of four to six characters).
RECURSIVE Escape(_)
Escape(s) ==
    IF s = <<>> THEN <<>>
    ELSE (IF Head(s) = "<" THEN <<"&", "l", "t", ";">> ELSE <<Head(s)>>)
         \o Escape(Tail(s))

\* The chain body(field).optional().trim().isLength({max}).escape(): the
\* steps run in the order written, the length is tested on the trimmed text
\* and the escaped text replaces the field.
FieldError(s, max) == Len(Trim(s)) > max

Sanitized(s) == Escape(Trim(s))

\* validateRequest: a request with a validation error is answered 400.
validateRequest(errors) == IF errors THEN 400 ELSE 0

\* A well-formed JPEG of one byte.
GoodImage == Image(1, 1, "image/jpeg", "image/jpeg", "", 1, 1, 1)

\* The upload requests of the serial runs: one file of any sample or of any
\* size without fields, or the well-formed image with one field.
UploadRequests ==
    {[files |-> <<f>>, guestName |-> <<>>, caption |-> <<>>] :
        f \in SampleImages \cup UploadFiles}
    \cup {[files |-> <<GoodImage>>, guestName |-> t, caption |-> <<>>] :
             t \in Texts}
    \cup {[files |-> <<GoodImage>>, guestName |-> <<>>, caption |-> t] :
             t \in Texts}

\* POST /api/upload arrives and multer has parsed the body.
ArriveUpload(w) ==
    /\ pc[w] = "idle"
    /\ \E r \in UploadRequests :
        /\ uuids + Len(r.files) <= MaxRows + 1
        /\ req' = [req EXCEPT ![w] =
                      [UploadAny(r.files) EXCEPT !.guestName = r.guestName,
                                                 !.caption = r.caption]]
    /\ pc' = [pc EXCEPT ![w] = "validate"]
    /\ resp' = [resp EXCEPT ![w] = 0]
    /\ msg' = [msg EXCEPT ![w] = ""]
    /\ UNCHANGED <<photos, stats, seq, files, uuids, config, loc, out,
                   written, everRows, decs, delTrue, peak, sd>>

\* The validation chains of the route, then validateRequest.
ValidateFields(w) ==
    /\ pc[w] = "validate"
    /\ LET errors == \/ FieldError(req[w].guestName, MaxGuestName)
                     \/ FieldError(req[w].caption, MaxCaption)
       IN  IF validateRequest(errors) # 0
           THEN Reply(w, validateRequest(errors), "ValidationError")
           ELSE /\ req' = [req EXCEPT
                              ![w].guestName = Sanitized(req[w].guestName),
                              ![w].caption = Sanitized(req[w].caption)]
                /\ pc' = [pc EXCEPT ![w] = "guard"]
                /\ UNCHANGED <<resp, msg, loc>>
    /\ UNCHANGED <<photos, stats, seq, files, uuids, config, out,
                   written, everRows, decs, delTrue, peak, sd>>

InitUpload == InitList

NextUpload ==
    \/ ArriveUpload(1)
    \/ ValidateFields(1)
    \/ CheckStorageLimit(1)
    \/ ProcessImage(1)
    \/ InsertRow(1)
    \/ InsertStats(1)
    \/ InsertReturn(1)

\* One process handling upload requests one at a time, on any store.
SpecUpload == InitUpload /\ [][NextUpload]_vars

\* -------------------------------------------------------------- shutdown

\* What gracefulShutdown is called with.
Signals == {"SIGTERM", "SIGINT", "UNCAUGHT_EXCEPTION", "UNHANDLED_REJECTION"}

\* A client connects to the listening server.
Accept ==
    /\ ~sd.exited
    /\ sd.server = "listening"
    /\ sd.conns < MaxConns
    /\ sd' = [sd EXCEPT !.conns = @ + 1]
    /\ UNCHANGED <<photos, stats, seq, files, uuids, config, pc, req, loc,
                   resp, msg, out, written, everRows, decs, delTrue, peak>>

\* A connection ends.
EndConnection ==
    /\ ~sd.exited
    /\ sd.conns > 0
    /\ sd' = [sd EXCEPT !.conns = @ - 1]
    /\ UNCHANGED <<photos, stats, seq, files, uuids, config, pc, req, loc,
                   resp, msg, out, written, everRows, decs, delTrue, peak>>

\* gracefulShutdown(signal): server.close(callback) stops the server from
\* accepting and registers the callback for its 'close' event; setTimeout
\* sets a force timer of 10 seconds.
gracefulShutdownEager(s, signal) ==
    [s EXCEPT !.signals = Append(@, signal),
              !.server = IF @ = "listening" THEN "closing" ELSE @,
              !.db = "closed",
              !.timers = @ + 1]

gracefulShutdown(s, signal) ==
    [s EXCEPT !.signals = Append(@, signal),
              !.server = IF @ = "listening" THEN "closing" ELSE @,
              !.timers = @ + 1]

\* A signal, an uncaught exception or an unhandled rejection reaches the
\* process: its handler calls gracefulShutdown.
Trigger ==
    /\ ~sd.exited
    /\ Len(sd.signals) < MaxTriggers
    /\ \E signal \in Signals : sd' = gracefulShutdown(sd, signal)
    /\ UNCHANGED <<photos, stats, seq, files, uuids, config, pc, req, loc,
                   resp, msg, out, written, everRows, decs, delTrue, peak>>

\* The closing server has no connection left and emits 'close': the first
\* registered callback runs app.close(), which closes the database, and
\* process.exit(0).
ServerClosed ==
    /\ ~sd.exited
    /\ sd.server = "closing"
    /\ sd.conns = 0
    /\ sd' = [sd EXCEPT !.server = "closed", !.db = "closed",
                        !.exited = TRUE, !.code = 0]
    /\ UNCHANGED <<photos, stats, seq, files, uuids, config, pc, req, loc,
                   resp, msg, out, written, everRows, decs, delTrue, peak>>

\* A force timer fires: process.exit(1).
ForceShutdown ==
    /\ ~sd.exited
    /\ sd.timers > 0
    /\ sd' = [sd EXCEPT !.exited = TRUE, !.code = 1]
    /\ UNCHANGED <<photos, stats, seq, files, uuids, config, pc, req, loc,
                   resp, msg, out, written, everRows, decs, delTrue, peak>>

NextShutdown ==
    \/ Accept
    \/ EndConnection
    \/ Trigger
    \/ ServerClosed
    \/ ForceShutdown

\* One process from its start to its exit.  The event loop runs a timer
\* that is due and emits the 'close' event of a drained server; whether a
\* connection ever ends is up to its client.
SpecShutdown ==
    /\ Init
    /\ [][NextShutdown]_vars
    /\ WF_vars(ForceShutdown)
    /\ WF_vars(ServerClosed)

\* ---------------------------------------------------------------- claims

\* The configured ceiling in bytes.
Ceiling == maxStorageGB * BytesPerGB

\* The aggregate equals the live rows.
AggregateMatches ==
    /\ stats.total_files = Cardinality(photos)
    /\ stats.total_size_bytes = SumSizes(photos)

\* No insertPhoto or deletePhoto stands between its row statement and its
\* storage_stats statement: every one that began has completed.
StoreQuiet == \A w \in Workers : pc[w] \notin {"ins_stats", "db_stats"}

\* The step is w's and ends its request with a response.
Answers(w) == pc[w] # "idle" /\ pc'[w] = "idle" /\ resp'[w] # -1

\* C1: once every insertPhoto and deletePhoto that began has completed, in
\* whatever order and interleaving they ran, total_files is the number of rows
\* of photos and total_size_bytes the sum of their file_size.
C1_AggregateEqualsRows == StoreQuiet => AggregateMatches

\* C1 witness: an insert and a delete have completed and a row is live.
C1_Witness ==
    /\ StoreQuiet
    /\ photos # {}
    /\ \E i \in Ids : delTrue[i] = 1

\* C2: the aggregate reflects the rows in every state a reader of another
\* process can see or a kill can leave behind.
C2_AggregateAtomic == AggregateMatches

\* C3: at the quota guard, a request is answered 507 whenever the bytes used
\* have reached the ceiling, or used plus the size of its uploaded files
\* would exceed it.
C3_GuardCountsUploadedFiles ==
    [][\A w \in Workers :
         (/\ pc[w] = "guard"
          /\ pc'[w] # "guard"
          /\ resp'[w] # -1
          /\ \/ stats.total_size_bytes >= Ceiling
             \/ stats.total_size_bytes + UploadedBytes(req[w]) > Ceiling)
         => resp'[w] = 507]_vars

\* C4: an upload that meets the guard while the bytes used are at or above the
\* ceiling is answered 507 there and then: the request ends, and no file, row,
\* id, name or aggregate value has changed.
C4_FullStoreRejects ==
    [][\A w \in Workers :
         (/\ pc[w] = "guard"
          /\ pc'[w] # "guard"
          /\ resp'[w] # -1
          /\ stats.total_size_bytes >= Ceiling)
         => /\ resp'[w] = 507
            /\ pc'[w] = "idle"
            /\ UNCHANGED <<photos, stats, files, seq, uuids, written>>]_vars

\* C4 witness: a request has just been turned away from a full store.
C4_Witness ==
    \E w \in Workers :
        /\ pc[w] = "idle"
        /\ resp[w] = 507
        /\ stats.total_size_bytes >= Ceiling

\* C5: no live row's backing file has been removed (written once, and gone
\* from the content directory).
C5_NoLiveRowWithoutFile ==
    \A r \in photos : ~(r.filename \in written /\ r.filename \notin files)

\* C6: a DELETE answered with the success response has removed the row itself
\* (deletePhoto returned true) and leaves neither the file nor the row.
C6_DeleteSuccessMeansGone ==
    [][\A w \in Workers :
         (req[w].kind = "delete" /\ Answers(w) /\ resp'[w] = 200)
         => /\ pc[w] = "db_stats"
            /\ loc[w].photo.filename \notin files'
            /\ \A r \in photos' : r.id # req[w].id]_vars

\* C7: every row of photos names a file that toFile had written before the
\* row was inserted.
C7_RowsHaveWrittenFiles == \A r \in photos : r.filename \in written

\* C7 witness: a row is live while another upload is about to insert.
C7_Witness ==
    /\ photos # {}
    /\ \E w \in Workers : pc[w] = "ins_row"

\* C8: a DELETE whose id has no row is answered 404 and changes no row, file
\* or aggregate value; so does DatabaseService.deletePhoto, returning false.
C8_DeleteMissingIsNotFound ==
    [][\A w \in Workers :
         /\ (/\ pc[w] = "del_lookup"
             /\ pc'[w] # "del_lookup"
             /\ resp'[w] # -1
             /\ getPhotoById(req[w].id) = NoRow)
            => /\ resp'[w] = 404
               /\ pc'[w] = "idle"
               /\ UNCHANGED <<photos, stats, files>>
         /\ (/\ pc[w] = "db_get"
             /\ pc'[w] # "db_get"
             /\ resp'[w] # -1
             /\ getPhotoById(req[w].id) = NoRow)
            => /\ pc'[w] = "idle"
               /\ UNCHANGED <<photos, stats, files, decs, delTrue>>]_vars

\* C8 witness: a DELETE was answered 404 while rows are live.
C8_Witness ==
    /\ photos # {}
    /\ \E w \in Workers : pc[w] = "idle" /\ resp[w] = 404

\* C9: neither counter of the aggregate is ever negative.
C9_AggregateNeverNegative ==
    stats.total_files >= 0 /\ stats.total_size_bytes >= 0

\* The row ever inserted under id i has been removed.
Removed(i) == \E r \in everRows \ photos : r.id = i

\* C10: for every id, over all interleavings of deletePhoto calls on it, at
\* most one call returns true and subtracts from the aggregate, what it
\* subtracts is that row's file_size, and once the row is gone and no call
\* is still to subtract, exactly one has.
C10_DeleteDecrementsOnce ==
    \A i \in Ids :
        /\ delTrue[i] <= 1
        /\ Len(decs[i]) = delTrue[i]
        /\ \A k \in 1..Len(decs[i]) :
               \E r \in everRows : r.id = i /\ r.file_size = decs[i][k]
        /\ delTrue[i] = 1 => Removed(i)
        /\ (Removed(i) /\ \A w \in Workers :
                              ~(pc[w] = "db_stats" /\ req[w].id = i))
           => delTrue[i] = 1

\* C10 witness: two DELETE requests for the only row ever inserted have both
\* run through deletePhoto, and one decrement was made.
C10_Witness ==
    /\ seq = 1
    /\ \A w \in Workers : pc[w] = "idle" /\ resp[w] = 200
    /\ delTrue[1] = 1

\* C11: a list request with an integer limit L is answered with at most
\* min(L, MaxLimit) photos, and with none when that is zero or negative.
C11_ListAtMostLimit ==
    \A w \in Workers :
        (req[w].kind = "list" /\ ~req[w].limit.nan)
        => Len(out[w].photos) <= Max(0, Min(req[w].limit.n, MaxLimit))

\* C12: serve-file answers "Photo not found" when no row has the id, the
\* different "Photo file not found" when the row is there and its file is
\* not, and sends the file, the row's own, only when both are there.
C12_ServeFileTellsFailuresApart ==
    \A w \in Workers :
        (req[w].kind = "file" /\ ~req[w].param.nan)
        => LET row == getPhotoById(req[w].param.n)
           IN  /\ row = NoRow
                  => /\ resp[w] = 404 /\ msg[w] = "Photo not found"
                     /\ out[w] = NoOut
               /\ (row # NoRow /\ row.filename \notin files)
                  => /\ resp[w] = 404 /\ msg[w] = "Photo file not found"
                     /\ out[w] = NoOut
               /\ (row # NoRow /\ row.filename \in files)
                  => /\ resp[w] = 200 /\ msg[w] = ""
                     /\ out[w] = [kind |-> "file", file |-> row.filename]

\* C12 witness: a row is there, its file is not, and serve-file has said so.
C12_Witness ==
    \E w \in Workers :
        /\ req[w].kind = "file"
        /\ getPhotoById(req[w].param.n) # NoRow
        /\ getPhotoById(req[w].param.n).filename \notin files
        /\ msg[w] = "Photo file not found"

\* The types of the allow-list.
AllowedTypes == {"image/jpeg", "image/png", "image/webp"}

\* The step is processImage on w's current file.
Processes(w) == pc[w] = "process" /\ pc'[w] # "process" /\ resp'[w] # -1

\* The file processImage is working on at w.
CurrentFile(w) == req[w].files[loc[w].idx]

\* C13: processImage rejects a file with InvalidFileType exactly when the
\* type sniffed from its bytes is none or not on the allow-list, and accepts
\* it exactly when the bytes pass the pipeline's tests, whatever MIME type
\* and whatever extension the client gave.
C13_AcceptanceBySniffedTypeOnly ==
    [][\A w \in Workers :
         Processes(w)
         => LET f == CurrentFile(w)
                good == /\ f.sniffed \in AllowedTypes
                        /\ f.width > 0 /\ f.height > 0
                        /\ f.width * f.height <= config.maxImageWidth
                               * config.maxImageHeight * PixelFactor
            IN  /\ (pc'[w] = "idle" /\ msg'[w] = "InvalidFileType")
                   <=> f.sniffed \notin AllowedTypes
                /\ pc'[w] = "ins_row" <=> good]_vars

\* C13 witness: JPEG bytes declared as text/plain have been accepted as JPEG.
C13_Witness ==
    \E w \in Workers :
        /\ pc[w] = "ins_row"
        /\ CurrentFile(w).mimetype = "text/plain"
        /\ loc[w].processed.mimeType = "image/jpeg"

\* C14: when a request is rejected for a malformed file, none of its files
\* has been written, none of its rows inserted and the aggregate is as
\* before (the request is the first on an empty store).
C14_MalformedRejectedBeforeProcessing ==
    \A w \in Workers :
        msg[w] \in {"InvalidFileType", "UnreadableDimensions"}
        => /\ files = {} /\ written = {}
           /\ photos = {}
           /\ stats = [total_files |-> 0, total_size_bytes |-> 0]

\* C15: every stored row has the pixel size of the processed image, within
\* the configured maxima.
C15_StoredSizeWithinMaxima ==
    \A r \in photos :
        r.width <= config.maxImageWidth /\ r.height <= config.maxImageHeight

\* C16: processImage accepts HEIC and HEIF bytes (their dimensions being
\* readable) and records them as image/webp; every other accepted file is
\* recorded under its sniffed type.
C16_HeicStoredAsWebp ==
    [][\A w \in Workers :
         Processes(w)
         => LET f == CurrentFile(w)
            IN  IF f.sniffed \in {"image/heic", "image/heif"}
                THEN /\ msg'[w] # "InvalidFileType"
                     /\ pc'[w] = "ins_row"
                        => loc'[w].processed.mimeType = "image/webp"
                ELSE pc'[w] = "ins_row"
                     => loc'[w].processed.mimeType = f.sniffed]_vars

\* The processes whose processed file has no row yet.
AtInsertRow == {w \in Workers : pc[w] = "ins_row"}

\* The processes whose processed file has its row.
AfterInsertRow == {w \in Workers : pc[w] \in {"ins_stats", "ins_ret"}}

\* C17: nothing is deduplicated.  Every processed file gets a file name and
\* a row of its own, with an id and a filename no other row ever had, also
\* when its bytes are those of another upload, and the aggregate counts
\* every one of them.
C17_EveryUploadItsOwnRow ==
    /\ \A r1, r2 \in everRows :
           r1 # r2 => r1.id # r2.id /\ r1.filename # r2.filename
    /\ Cardinality(written) = uuids
    /\ Cardinality(everRows) = seq
    /\ seq = uuids - Cardinality(AtInsertRow)
    /\ \A w1, w2 \in AfterInsertRow :
           w1 # w2 => /\ loc[w1].rowid # loc[w2].rowid
                      /\ loc[w1].processed.filename # loc[w2].processed.filename
    /\ ((\A w \in Workers : pc[w] # "ins_stats") /\ (\A i \in Ids : delTrue[i] = 0))
       => /\ stats.total_files = seq
          /\ stats.total_size_bytes = SumSizes(everRows)

\* C17 witness: two requests with the same bytes have both been stored, as
\* two files and two rows that the aggregate counts.
C17_Witness ==
    /\ pc[1] = "ins_ret" /\ pc[2] = "ins_ret"
    /\ req[1].files = req[2].files
    /\ Cardinality(photos) = 2
    /\ Cardinality(files) = 2
    /\ stats.total_files = 2

\* C18: the aggregate exceeds the ceiling by at most (in fact by less than)
\* the stored bytes of the uploads that were admitted and pending at one
\* time.
C18_ExcessWithinPending ==
    stats.total_size_bytes > Ceiling
    => stats.total_size_bytes - Ceiling < peak

\* C18 witness: the uploads of both processes were admitted and completed,
\* and the aggregate is above the ceiling.
C18_Witness ==
    /\ \A w \in Workers : pc[w] = "idle" /\ resp[w] = 201
    /\ stats.total_size_bytes > Ceiling

\* The Authorization header h carries the secret as a field of its Basic
\* credentials.
PresentsSecret(h) ==
    /\ h.scheme = "Basic"
    /\ \E i \in 1..Len(Split(h.credentials)) :
           Split(h.credentials)[i] = adminPassword

\* The Authorization header h is missing, not Basic, or its credentials
\* have no password field or one that differs from the secret.
BadCredential(h) ==
    \/ h = NoHeader
    \/ h.scheme # "Basic"
    \/ Len(Split(h.credentials)) < 2
    \/ Split(h.credentials)[2] # adminPassword

FilenamesUnique ==
    \A r1, r2 \in photos : r1.filename = r2.filename => r1 = r2

\* C20: an insert whose filename a live row already has fails, with the
\* UNIQUE constraint's error when the row is otherwise valid, adds no row
\* and leaves rows and aggregate as they were; no two live rows ever share
\* a filename.
C20_DuplicateFilenameRejected ==
    /\ []FilenamesUnique
    /\ [][\A w \in Workers :
            (/\ pc[w] = "ins_row" /\ pc'[w] # "ins_row"
             /\ \E r \in photos : r.filename = loc[w].processed.filename)
            => /\ pc'[w] = "idle"
               /\ msg'[w] \in {"SQLITE_CONSTRAINT_UNIQUE",
                               "SQLITE_CONSTRAINT_CHECK"}
               /\ (loc[w].processed.fileSize > 0 /\ loc[w].processed.width > 0
                     /\ loc[w].processed.height > 0)
                  => msg'[w] = "SQLITE_CONSTRAINT_UNIQUE"
               /\ UNCHANGED <<photos, stats, seq>>]_vars

\* C20 witness: an insert has failed on the UNIQUE constraint.
C20_Witness ==
    \E w \in Workers :
        /\ pc[w] = "idle"
        /\ msg[w] = "SQLITE_CONSTRAINT_UNIQUE"
        /\ photos # {}

\* Every live row has a positive size, width and height.
RowsPositive ==
    \A r \in photos : r.file_size > 0 /\ r.width > 0 /\ r.height > 0

\* C21: every live row has file_size, width and height above zero; an
\* insert with one of them zero or negative fails on a CHECK constraint and
\* leaves rows, id sequence and aggregate as they were.
C21_PositiveSizesEnforced ==
    /\ []RowsPositive
    /\ [][\A w \in Workers :
            (/\ pc[w] = "ins_row" /\ pc'[w] # "ins_row"
             /\ \/ loc[w].processed.fileSize <= 0
                \/ loc[w].processed.width <= 0
                \/ loc[w].processed.height <= 0)
            => /\ pc'[w] = "idle"
               /\ msg'[w] = "SQLITE_CONSTRAINT_CHECK"
               /\ UNCHANGED <<photos, stats, seq>>]_vars

\* C21 witness: an insert has failed on a CHECK constraint on a store that
\* has rows.
C21_Witness ==
    \E w \in Workers :
        /\ pc[w] = "idle"
        /\ msg[w] = "SQLITE_CONSTRAINT_CHECK"
        /\ photos # {}

\* C22: in every list result the rows stand newest first: a row inserted
\* later (it has the larger id) stands before a row inserted earlier.
C22_ListNewestFirst ==
    \A w \in Workers :
        out[w].kind = "list"
        => \A i, j \in DOMAIN out[w].photos :
               i < j => out[w].photos[i] > out[w].photos[j]

\* C24: a call of processImage that succeeds adds one file, under a name no
\* file has or ever had, and leaves the other files alone; a call that
\* fails leaves the content directory as it was.
C24_ProcessImageWritesOneFile ==
    [][\A w \in Workers :
         Processes(w)
         => IF pc'[w] = "ins_row"
            THEN LET n == loc'[w].processed.filename
                 IN  /\ n \notin files /\ n \notin written
                     /\ files' = files \cup {n}
            ELSE files' = files]_vars

\* C24 witness: the second file of a request has been processed next to
\* the file of the first.
C24_Witness ==
    \E w \in Workers :
        /\ pc[w] = "ins_row"
        /\ loc[w].idx = 2
        /\ Cardinality(files) = 2

\* C26: a row appears only in the insert of an upload, with a new id and
\* the attributes of the processed file; it disappears only in the DELETE
\* statement of a delete request for its id; no step changes a row.
C26_RowsCreatedAndDeletedOnly ==
    [][/\ \A r \in photos' \ photos :
            /\ r.id \notin {q.id : q \in everRows}
            /\ \E w \in Workers :
                   /\ req[w].kind = "upload"
                   /\ pc[w] = "ins_row" /\ pc'[w] = "ins_stats"
                   /\ r.filename = loc[w].processed.filename
                   /\ r.mime_type = loc[w].processed.mimeType
                   /\ r.file_size = loc[w].processed.fileSize
                   /\ r.width = loc[w].processed.width
                   /\ r.height = loc[w].processed.height
       /\ \A r \in photos \ photos' :
            \E w \in Workers :
                /\ req[w].kind = "delete"
                /\ pc[w] = "db_delete"
                /\ req[w].id = r.id
       /\ \A r \in photos, q \in photos' : r.id = q.id => r = q]_vars

\* C26 witness: two rows were inserted and one of them has been deleted.
C26_Witness ==
    /\ Cardinality(everRows) = 2
    /\ Cardinality(photos) = 1
    /\ \A w \in Workers : pc[w] = "idle"

\* C27: hasMore is true exactly when a follow-up request, with the offset
\* advanced by the number of returned photos, returns at least one photo.
C27_HasMoreExact ==
    \A w \in Workers :
        out[w].kind = "list"
        => (out[w].hasMore
            <=> \A page \in getAllPhotos(out[w].limit,
                                         out[w].offset + Len(out[w].photos)) :
                    Len(page) > 0)

\* C29: insertPhoto returns the row it inserted, with the attributes it was
\* given, under an id no row ever had.
C29_InsertReturnsItsRow ==
    [][\A w \in Workers :
         /\ (pc[w] = "ins_row" /\ pc'[w] = "ins_stats")
            => loc'[w].rowid \notin {q.id : q \in everRows}
         /\ (pc[w] = "ins_ret" /\ pc'[w] # "ins_ret")
            => LET row == getPhotoById(loc[w].rowid)
               IN  /\ row # NoRow
                   /\ row.filename = loc[w].processed.filename
                   /\ row.file_size = loc[w].processed.fileSize
                   /\ row.width = loc[w].processed.width
                   /\ row.height = loc[w].processed.height]_vars

\* C23: a pipeline rejection is answered 400 and a quota rejection 507; the
\* guard answers nothing else and the two statuses differ.
C23_RejectionsDistinguishable ==
    [][\A w \in Workers :
         /\ (pc[w] = "guard" /\ pc'[w] = "idle")
            => resp'[w] = 507 /\ msg'[w] = "StorageExceeded"
         /\ (pc[w] = "process" /\ pc'[w] = "idle"
               /\ msg'[w] \in {"InvalidFileType", "UnreadableDimensions"})
            => resp'[w] = 400
         /\ (pc[w] = "process" /\ pc'[w] = "idle") => resp'[w] # 507]_vars

\* C23 witness: a file that is no image has been rejected with 400 on a
\* store that has room.
C23_Witness ==
    \E w \in Workers :
        /\ pc[w] = "idle"
        /\ resp[w] = 400
        /\ msg[w] = "InvalidFileType"
        /\ stats.total_size_bytes < Ceiling

\* C25: every stored row has a guest name of at most MaxGuestName
\* characters and a caption of at most MaxCaption characters.
C25_StoredFieldsWithinLimits ==
    \A r \in photos :
        Len(r.guest_name) <= MaxGuestName /\ Len(r.caption) <= MaxCaption

\* C28: with requests handled one at a time, the aggregate is within the
\* ceiling whenever an upload request has completed.
C28_SerialUploadsWithinCeiling ==
    \A w \in Workers :
        (pc[w] = "idle" /\ resp[w] = 201)
        => stats.total_size_bytes <= Ceiling

\* A full store has answered an upload with 507.
QuotaRejected ==
    \E w \in Workers : resp[w] = 507 /\ msg[w] = "StorageExceeded"

\* The database handle is closed only once the server has closed, and the
\* process has exited with 0 after the server closed or with 1 on a force
\* timer.
ShutdownInOrder ==
    /\ sd.db = "closed" => sd.server = "closed"
    /\ sd.exited
       => \/ sd.code = 0 /\ sd.server = "closed" /\ sd.db = "closed"
          \/ sd.code = 1 /\ sd.timers > 0

\* C30: once gracefulShutdown has been called, once or more, the process
\* eventually exits, with 0 after the server has closed and with 1 on a
\* force timer otherwise, and the database is closed only after the server.
C30_GracefulShutdown ==
    /\ []ShutdownInOrder
    /\ (sd.signals # <<>>) ~> sd.exited

\* C30 witness: after two calls of gracefulShutdown the server has closed
\* and the process has exited with 0.
C30_Witness ==
    /\ Len(sd.signals) = 2
    /\ sd.exited /\ sd.code = 0
    /\ sd.db = "closed"
====
